---- MODULE Spec2Model ----
(***************************************************************************)
(* Strided, broadcasting tensor kernels of minitorch/tensor_ops.py:        *)
(* tensor_map, tensor_zip, tensor_reduce and their entry points map, zip,  *)
(* reduce.  Each kernel is a recursive traversal (recursive_set); the      *)
(* model runs it one loop iteration at a time on an explicit call stack.   *)
(* Python indices are 0-based: dimension d of a shape is shape[d + 1].     *)
(***************************************************************************)
EXTENDS Integers, Sequences, FiniteSets, TLC

VARIABLES op, pc, error, fn, start,
          out, out_shape, out_strides,
          a_storage, a_shape, a_strides,
          b_storage, b_shape, b_strides,
          reduce_dim, stack, writes, out_reads

vars == <<op, pc, error, fn, start, out, out_shape, out_strides,
          a_storage, a_shape, a_strides, b_storage, b_shape, b_strides,
          reduce_dim, stack, writes, out_reads>>

\* ---------------------------------------------------------------- bounds
MaxRank == 3
MaxDim == 2
MaxLen == 3
MaxVal == 2
MaxCells == 8

\* -------------------------------------------------------- input universe
None == << >>
Junk == 99

RECURSIVE Prod(_)
Prod(s) == IF Len(s) = 0 THEN 1 ELSE Head(s) * Prod(Tail(s))

Shapes == {s \in UNION {[1..r -> 1..MaxDim] : r \in 1..MaxRank} : Prod(s) <= MaxCells}
          \cup {<<n>> : n \in 1..MaxLen}

Layouts == {"row", "col"}
OutLayouts == {"row", "col", "pad"}
UnaryFns == {"neg", "dbl"}
BinaryFns == {"add", "sub", "cat"}
ZipFns == {"sub", "cat"}
Seeds == {0, 1}


\* the scalar function handed to tensor_map
Apply1(f, x) == IF f = "neg" THEN 0 - x ELSE 2 * x

\* the scalar function handed to tensor_zip / tensor_reduce
Apply2(f, x, y) ==
    IF f = "add" THEN x + y
    ELSE IF f = "sub" THEN x - y
    ELSE 10 * x + y

\* strides of a tensor view over a flat storage
RowStrides(s) == [d \in 1..Len(s) |-> Prod(SubSeq(s, d + 1, Len(s)))]
ColStrides(s) == [d \in 1..Len(s) |-> Prod(SubSeq(s, 1, d - 1))]
StridesOf(s, layout) ==
    IF layout = "row" THEN RowStrides(s)
    ELSE IF layout = "col" THEN ColStrides(s)
    ELSE [d \in 1..Len(s) |-> 2 * RowStrides(s)[d]]
SizeOf(s, layout) == IF layout = "pad" THEN 2 * Prod(s) ELSE Prod(s)

Fill(n, pat) == [p \in 0..(n - 1) |-> IF pat = "inc" THEN p + 1 ELSE 2 * (n - p) + 1]
Patterns == {"inc", "dec"}

RECURSIVE Coordinates(_)
Coordinates(s) ==
    IF Len(s) = 0 THEN {<< >>}
    ELSE {<<i>> \o c : i \in 0..(Head(s) - 1), c \in Coordinates(Tail(s))}

\* ------------------------------------------------- tensor_data functions
RECURSIVE index_to_position(_, _)
index_to_position(index, strides) ==
    IF Len(index) = 0 THEN 0
    ELSE Head(index) * Head(strides) + index_to_position(Tail(index), Tail(strides))

\* fills an index of the big rank: -1 marks a dimension the small shape lacks
broadcast_index(big_index, big_shape, shape) ==
    LET off == Len(big_shape) - Len(shape)
    IN [d \in 1..Len(big_shape) |->
          IF d <= off THEN -1
          ELSE IF shape[d - off] = 1 THEN 0
          ELSE big_index[d]]

shape_broadcast(s1, s2) ==
    LET n == IF Len(s1) > Len(s2) THEN Len(s1) ELSE Len(s2)
        A(d) == IF d <= n - Len(s1) THEN 1 ELSE s1[d - (n - Len(s1))]
        B(d) == IF d <= n - Len(s2) THEN 1 ELSE s2[d - (n - Len(s2))]
        okay == \A d \in 1..n : A(d) = B(d) \/ A(d) = 1 \/ B(d) = 1
    IN [ok |-> okay,
        shape |-> [d \in 1..n |-> IF A(d) = 1 THEN B(d) ELSE A(d)]]

\* a.zeros(shape): fresh contiguous zero-filled tensor
zeros(s) == [storage |-> [p \in 0..(Prod(s) - 1) |-> 0],
             shape |-> s,
             strides |-> RowStrides(s)]

BroadcastableTo(small, big) ==
    /\ Len(small) <= Len(big)
    /\ \A d \in 1..Len(small) :
          small[d] = 1 \/ small[d] = big[d + Len(big) - Len(small)]

\* ------------------------------------------------------- kernel pieces
Range(lo, hi) == [k \in 1..(IF hi > lo THEN hi - lo ELSE 0) |-> lo + k - 1]

\* [i for i in cur_in_index if i != -1]
FilterDropped(index) == SelectSeq(index, LAMBDA x : x # -1)

StoreAt(storage, p, v) == [storage EXCEPT ![p] = v]

Zeros(n) == [d \in 1..n |-> 0]

Top == stack[Len(stack)]
Frame(cur, d) == [cur |-> cur, shape_index |-> d, j |-> 1]

Init ==
    /\ op = "none" /\ pc = "idle" /\ error = "none"
    /\ fn = "none" /\ start = 0
    /\ out = None /\ out_shape = << >> /\ out_strides = << >>
    /\ a_storage = None /\ a_shape = << >> /\ a_strides = << >>
    /\ b_storage = None /\ b_shape = << >> /\ b_strides = << >>
    /\ reduce_dim = 0 /\ stack = << >> /\ writes = << >> /\ out_reads = 0

\* ------------------------------------------------------------------ map
\* variant: the loop of tensor_reduce (index 0 only on the outermost axis)
MapForLengthFromOne(shape, d) ==
    IF d = 0 THEN Range(0, shape[d + 1]) ELSE Range(1, shape[d + 1])

MapForLength(shape, d) == Range(0, shape[d + 1])

MapInPosition(cur_out_index) ==
    index_to_position(FilterDropped(broadcast_index(cur_out_index, out_shape, a_shape)),
                      a_strides)

\* variant: output position off by one
MapOutPositionShifted(cur_out_index, strides) ==
    index_to_position(cur_out_index, strides) + 1

MapOutPosition(cur_out_index, strides) == index_to_position(cur_out_index, strides)

MapRet ==
    /\ pc = "idle"
    /\ \E s \in Shapes, la \in Layouts, f \in UnaryFns :
         /\ op' = "map" /\ fn' = f
         /\ a_shape' = s /\ a_strides' = StridesOf(s, la)
         /\ a_storage' = Fill(Prod(s), "inc")
         /\ \/ LET z == zeros(s)
               IN /\ out' = z.storage /\ out_shape' = z.shape
                  /\ out_strides' = z.strides
            \/ \E os \in Shapes, lo \in OutLayouts :
                  /\ BroadcastableTo(s, os)
                  /\ out' = [p \in 0..(SizeOf(os, lo) - 1) |-> Junk]
                  /\ out_shape' = os /\ out_strides' = StridesOf(os, lo)
         /\ stack' = <<Frame(Zeros(Len(out_shape')), 0)>>
    /\ pc' = "running"
    /\ UNCHANGED <<error, start, b_storage, b_shape, b_strides, reduce_dim,
                   writes, out_reads>>

MapStep ==
    /\ pc = "running" /\ op = "map"
    /\ Top.shape_index < Len(out_shape)
    /\ Top.j <= Len(MapForLength(out_shape, Top.shape_index))
    /\ LET d == Top.shape_index
           i == MapForLength(out_shape, d)[Top.j]
           cur_out_index == [Top.cur EXCEPT ![d + 1] = i]
           in_storage_position == MapInPosition(cur_out_index)
           out_storage_position == MapOutPosition(cur_out_index, out_strides)
           v == Apply1(fn, a_storage[in_storage_position])
       IN /\ out' = StoreAt(out, out_storage_position, v)
          /\ writes' = Append(writes, [pos |-> out_storage_position,
                                       index |-> cur_out_index,
                                       src |-> in_storage_position,
                                       val |-> v])
          /\ stack' = Append([stack EXCEPT ![Len(stack)] =
                                 [cur |-> cur_out_index, shape_index |-> d, j |-> Top.j + 1]],
                             Frame(cur_out_index, d + 1))
    /\ UNCHANGED <<op, pc, error, fn, start, out_shape, out_strides,
                   a_storage, a_shape, a_strides, b_storage, b_shape, b_strides,
                   reduce_dim, out_reads>>

MapReturn ==
    /\ op = "map" /\ pc = "running"
    /\ IF Top.shape_index >= Len(out_shape) THEN TRUE
       ELSE Top.j > Len(MapForLength(out_shape, Top.shape_index))
    /\ stack' = SubSeq(stack, 1, Len(stack) - 1)
    /\ pc' = IF Len(stack) = 1 THEN "done" ELSE "running"
    /\ UNCHANGED <<op, error, fn, start, out, out_shape, out_strides,
                   a_storage, a_shape, a_strides, b_storage, b_shape, b_strides,
                   reduce_dim, writes, out_reads>>

\* ------------------------------------------------------------------ zip
ZipForLength(shape, d) == Range(0, shape[d + 1])

ZipPosition(cur_out_index, shape, strides) ==
    index_to_position(FilterDropped(broadcast_index(cur_out_index, out_shape, shape)),
                      strides)

\* variant: operands swapped
ZipValueSwapped(f, a_value, b_value) == Apply2(f, b_value, a_value)

ZipValue(f, a_value, b_value) == Apply2(f, a_value, b_value)

\* variant: the resolver is never consulted
ZipOutShapeOfA(sa, sb) == [ok |-> TRUE, shape |-> sa]

\* c_shape of zip.ret
ZipOutShape(sa, sb) ==
    IF sa # sb THEN shape_broadcast(sa, sb) ELSE [ok |-> TRUE, shape |-> sa]

\* zip(fn)(a, b)
ZipRet ==
    /\ pc = "idle"
    /\ \E sa \in Shapes, sb \in Shapes, la \in Layouts, lb \in Layouts,
          f \in ZipFns :
         LET c_shape == ZipOutShape(sa, sb)
         IN /\ c_shape.ok => Prod(c_shape.shape) <= MaxCells
            /\ op' = "zip" /\ fn' = f
            /\ a_shape' = sa /\ a_strides' = StridesOf(sa, la)
            /\ a_storage' = Fill(Prod(sa), "inc")
            /\ b_shape' = sb /\ b_strides' = StridesOf(sb, lb)
            /\ b_storage' = Fill(Prod(sb), "dec")
            /\ IF c_shape.ok
               THEN /\ out' = zeros(c_shape.shape).storage
                    /\ out_shape' = zeros(c_shape.shape).shape
                    /\ out_strides' = zeros(c_shape.shape).strides
                    /\ stack' = <<Frame(Zeros(Len(c_shape.shape)), 0)>>
                    /\ pc' = "running" /\ error' = "none"
               ELSE /\ pc' = "error" /\ error' = "ShapeMismatch"
                    /\ UNCHANGED <<out, out_shape, out_strides, stack>>
    /\ UNCHANGED <<start, reduce_dim, writes, out_reads>>

\* tensor_zip(fn)(out, ..., a, ..., b, ...) on a padded output the caller supplies
TensorZip ==
    /\ pc = "idle"
    /\ \E os \in Shapes, sa \in Shapes, sb \in Shapes :
         /\ BroadcastableTo(sa, os) /\ BroadcastableTo(sb, os)
         /\ op' = "zip" /\ fn' = "cat"
         /\ a_shape' = sa /\ a_strides' = StridesOf(sa, "row")
         /\ a_storage' = Fill(Prod(sa), "inc")
         /\ b_shape' = sb /\ b_strides' = StridesOf(sb, "col")
         /\ b_storage' = Fill(Prod(sb), "dec")
         /\ out' = [p \in 0..(SizeOf(os, "pad") - 1) |-> Junk]
         /\ out_shape' = os /\ out_strides' = StridesOf(os, "pad")
         /\ stack' = <<Frame(Zeros(Len(os)), 0)>>
    /\ pc' = "running"
    /\ UNCHANGED <<error, start, reduce_dim, writes, out_reads>>

ZipStep ==
    /\ pc = "running" /\ op = "zip"
    /\ Top.shape_index < Len(out_shape)
    /\ Top.j <= Len(ZipForLength(out_shape, Top.shape_index))
    /\ LET d == Top.shape_index
           i == ZipForLength(out_shape, d)[Top.j]
           cur_out_index == [Top.cur EXCEPT ![d + 1] = i]
           a_storage_position == ZipPosition(cur_out_index, a_shape, a_strides)
           b_storage_position == ZipPosition(cur_out_index, b_shape, b_strides)
           out_storage_position == index_to_position(cur_out_index, out_strides)
           v == ZipValue(fn, a_storage[a_storage_position], b_storage[b_storage_position])
       IN /\ out' = StoreAt(out, out_storage_position, v)
          /\ writes' = Append(writes, [pos |-> out_storage_position,
                                       index |-> cur_out_index,
                                       src |-> a_storage_position,
                                       val |-> v])
          /\ stack' = Append([stack EXCEPT ![Len(stack)] =
                                 [cur |-> cur_out_index, shape_index |-> d, j |-> Top.j + 1]],
                             Frame(cur_out_index, d + 1))
    /\ UNCHANGED <<op, pc, error, fn, start, out_shape, out_strides,
                   a_storage, a_shape, a_strides, b_storage, b_shape, b_strides,
                   reduce_dim, out_reads>>

ZipReturn ==
    /\ op = "zip" /\ pc = "running"
    /\ IF Top.shape_index >= Len(out_shape) THEN TRUE
       ELSE Top.j > Len(ZipForLength(out_shape, Top.shape_index))
    /\ stack' = SubSeq(stack, 1, Len(stack) - 1)
    /\ pc' = IF Len(stack) = 1 THEN "done" ELSE "running"
    /\ UNCHANGED <<op, error, fn, start, out, out_shape, out_strides,
                   a_storage, a_shape, a_strides, b_storage, b_shape, b_strides,
                   reduce_dim, writes, out_reads>>

\* --------------------------------------------------------------- reduce
\* variant: index 0 skipped on every axis
ReduceForLengthFromOne(shape, d) == Range(1, shape[d + 1])

\* variant: axis walked downwards
ReduceForLengthReversed(shape, d) ==
    IF d = 0 THEN [k \in 1..shape[d + 1] |-> shape[d + 1] - k]
    ELSE [k \in 1..(shape[d + 1] - 1) |-> shape[d + 1] - k]

ReduceForLength(shape, d) ==
    IF d = 0 THEN Range(0, shape[d + 1]) ELSE Range(1, shape[d + 1])

ReduceOutIndex(cur_a_index, dim) == [cur_a_index EXCEPT ![dim + 1] = 0]

\* storages a reduce is run on: every value vector for a rank-1 tensor
ReduceStorages(s) ==
    IF Len(s) = 1 THEN [0..(Prod(s) - 1) -> 0..MaxVal]
    ELSE {Fill(Prod(s), pat) : pat \in Patterns}

\* reduce(fn, start)(a, dim)
ReduceRet ==
    /\ pc = "idle"
    /\ \E s \in Shapes, la \in Layouts, f \in BinaryFns, seed \in Seeds :
       \E dim \in 0..(Len(s) - 1), st \in ReduceStorages(s) :
         LET z == zeros([s EXCEPT ![dim + 1] = 1])
         IN /\ op' = "reduce" /\ fn' = f /\ start' = seed
            /\ a_shape' = s /\ a_strides' = StridesOf(s, la)
            /\ a_storage' = st
            /\ reduce_dim' = dim
            /\ out' = [p \in DOMAIN z.storage |-> seed]
            /\ out_shape' = z.shape /\ out_strides' = z.strides
            /\ stack' = <<Frame(Zeros(Len(s)), 0)>>
    /\ pc' = "running"
    /\ UNCHANGED <<error, b_storage, b_shape, b_strides, writes, out_reads>>

ReduceStep ==
    /\ pc = "running" /\ op = "reduce"
    /\ Top.shape_index < Len(a_shape)
    /\ Top.j <= Len(ReduceForLength(a_shape, Top.shape_index))
    /\ LET d == Top.shape_index
           i == ReduceForLength(a_shape, d)[Top.j]
           cur_a_index == [Top.cur EXCEPT ![d + 1] = i]
           a_storage_position == index_to_position(cur_a_index, a_strides)
           first == cur_a_index[reduce_dim + 1] = 0
           cur_out_index == IF first THEN cur_a_index
                            ELSE ReduceOutIndex(cur_a_index, reduce_dim)
           out_storage_position == index_to_position(cur_out_index, out_strides)
           v == IF first THEN a_storage[a_storage_position]
                ELSE Apply2(fn, out[out_storage_position], a_storage[a_storage_position])
       IN /\ out' = StoreAt(out, out_storage_position, v)
          /\ out_reads' = IF first THEN out_reads ELSE out_reads + 1
          /\ writes' = Append(writes, [pos |-> out_storage_position,
                                       index |-> cur_a_index,
                                       src |-> a_storage_position,
                                       val |-> v])
          /\ stack' = Append([stack EXCEPT ![Len(stack)] =
                                 [cur |-> cur_a_index, shape_index |-> d, j |-> Top.j + 1]],
                             Frame(cur_a_index, d + 1))
    /\ UNCHANGED <<op, pc, error, fn, start, out_shape, out_strides,
                   a_storage, a_shape, a_strides, b_storage, b_shape, b_strides,
                   reduce_dim>>

ReduceReturn ==
    /\ op = "reduce" /\ pc = "running"
    /\ IF Top.shape_index >= Len(a_shape) THEN TRUE
       ELSE Top.j > Len(ReduceForLength(a_shape, Top.shape_index))
    /\ stack' = SubSeq(stack, 1, Len(stack) - 1)
    /\ pc' = IF Len(stack) = 1 THEN "done" ELSE "running"
    /\ UNCHANGED <<op, error, fn, start, out, out_shape, out_strides,
                   a_storage, a_shape, a_strides, b_storage, b_shape, b_strides,
                   reduce_dim, writes, out_reads>>

Next ==
    \/ MapRet \/ MapStep \/ MapReturn
    \/ ZipRet \/ TensorZip \/ ZipStep \/ ZipReturn
    \/ ReduceRet \/ ReduceStep \/ ReduceReturn

Spec == Init /\ [][Next]_vars

\* ------------------------------------------------------------ properties
RECURSIVE LeftFold(_, _, _)
LeftFold(f, acc, seq) ==
    IF Len(seq) = 0 THEN acc ELSE LeftFold(f, Apply2(f, acc, Head(seq)), Tail(seq))

RECURSIVE SumTo(_, _)
SumTo(storage, n) == IF n = 0 THEN 0 ELSE storage[n - 1] + SumTo(storage, n - 1)

\* elements of a along reduce_dim through coordinate c, in index order
Along(c) ==
    [k \in 1..a_shape[reduce_dim + 1] |->
        a_storage[index_to_position([c EXCEPT ![reduce_dim + 1] = k - 1], a_strides)]]

WritesTo(c) == {k \in 1..Len(writes) : writes[k].index = c}
AddressedPositions == {index_to_position(c, out_strides) : c \in Coordinates(out_shape)}
\* two input coordinates of one reduce group: equal off reduce_dim
SameGroup(c1, c2) == \A d \in 1..Len(c1) : d # reduce_dim + 1 => c1[d] = c2[d]
Small(c, shape) == FilterDropped(broadcast_index(c, out_shape, shape))

\* C1: after reduce(fn, seed)(a, dim) every output cell holds the left fold
\* of fn from seed over all elements along dim, other coordinates fixed.
C1_ReduceIsSeededLeftFold ==
    (op = "reduce" /\ pc = "done") =>
        \A c \in Coordinates(out_shape) :
            out[index_to_position(c, out_strides)] = LeftFold(fn, start, Along(c))

\* C2: when the reduced dimension has size 1 every output cell is
\* fn(seed, a[cell]), one application of fn, not a copy of the input.
C2_SizeOneAppliesFnOnce ==
    (op = "reduce" /\ pc = "done" /\ a_shape[reduce_dim + 1] = 1) =>
        \A c \in Coordinates(out_shape) :
            out[index_to_position(c, out_strides)]
                = Apply2(fn, start, a_storage[index_to_position(c, a_strides)])

\* C3: after the map kernel returns, out at every coordinate c of out_shape
\* is fn of the input cell c broadcasts from.
C3_MapResult ==
    (op = "map" /\ pc = "done") =>
        \A c \in Coordinates(out_shape) :
            out[index_to_position(c, out_strides)]
                = Apply1(fn, a_storage[index_to_position(Small(c, a_shape), a_strides)])

C3_Witness ==
    /\ op = "map" /\ pc = "done"
    /\ Len(a_shape) < Len(out_shape)
    /\ \E d \in 1..Len(a_shape) : a_shape[d] = 1 /\ out_shape[d + Len(out_shape) - Len(a_shape)] > 1
    /\ out_strides # RowStrides(out_shape)

\* C4: after the zip kernel returns, out at every coordinate c is
\* fn(a cell c broadcasts from, b cell c broadcasts from), a first, b second.
C4_ZipResult ==
    (op = "zip" /\ pc = "done") =>
        \A c \in Coordinates(out_shape) :
            out[index_to_position(c, out_strides)]
                = Apply2(fn, a_storage[index_to_position(Small(c, a_shape), a_strides)],
                             b_storage[index_to_position(Small(c, b_shape), b_strides)])

C4_Witness ==
    /\ op = "zip" /\ pc = "done" /\ fn = "sub"
    /\ a_shape = <<2, 1>> /\ b_shape = <<1, 2>> /\ out_shape = <<2, 2>>

\* C5: during one map or zip kernel call every addressed cell of out is
\* written exactly once and out is never read.
C5_WrittenExactlyOnce ==
    (op \in {"map", "zip"} /\ pc = "done") =>
        /\ \A c \in Coordinates(out_shape) : Cardinality(WritesTo(c)) = 1
        /\ out_reads = 0

\* C6: a map, zip or reduce call writes only output positions addressed by a
\* coordinate of out_shape through out_strides, leaves every other output
\* cell as it was, and leaves input storages, shapes and strides unchanged.
C6_WritesInFrame ==
    /\ \A k \in 1..Len(writes) : writes[k].pos \in AddressedPositions
    /\ op = "map" => \A p \in DOMAIN out : p \notin AddressedPositions => out[p] = Junk
    /\ op = "zip" /\ pc # "error" =>
           \A p \in DOMAIN out : p \notin AddressedPositions => out[p] = Junk

C6_InputsKept ==
    pc = "running" =>
        /\ a_storage' = a_storage /\ a_shape' = a_shape /\ a_strides' = a_strides
        /\ b_storage' = b_storage /\ b_shape' = b_shape /\ b_strides' = b_strides
        /\ out_shape' = out_shape /\ out_strides' = out_strides
        /\ reduce_dim' = reduce_dim
        /\ DOMAIN out' = DOMAIN out

C6_Frame == [](C6_WritesInFrame) /\ [][C6_InputsKept]_vars

C6_Witness ==
    /\ pc = "done" /\ op = "map"
    /\ AddressedPositions # DOMAIN out
    /\ Len(writes) > 2

\* C7: zip(fn)(a, b) on shapes that do not broadcast fails with
\* ShapeMismatch before an output is allocated or any cell is written.
C7_MismatchFailsFirst ==
    (op = "zip" /\ ~shape_broadcast(a_shape, b_shape).ok) =>
        /\ pc = "error" /\ error = "ShapeMismatch"
        /\ out = None /\ writes = << >> /\ stack = << >>

C7_Witness ==
    /\ op = "zip" /\ pc = "error"
    /\ a_shape = <<1, 2>> /\ b_shape = <<3>>

\* C8: reducing shape (n,) over dimension 0 with add and seed 0 gives shape
\* (1,) holding v0 + ... + v(n-1).
C8_FullCollapseSum ==
    (op = "reduce" /\ pc = "done" /\ Len(a_shape) = 1 /\ fn = "add" /\ start = 0) =>
        /\ out_shape = <<1>>
        /\ DOMAIN out = {0}
        /\ out[0] = SumTo(a_storage, a_shape[1])

C8_Witness ==
    /\ op = "reduce" /\ pc = "done" /\ fn = "add" /\ start = 0
    /\ a_shape = <<MaxLen>>
    /\ \A p \in DOMAIN a_storage : a_storage[p] = p
    /\ out[0] = SumTo(a_storage, MaxLen)

\* C9: in one reduce call the elements combined into one output cell are
\* taken in strictly increasing index order along reduce_dim.
C9_IncreasingOrder ==
    op = "reduce" =>
        \A k1, k2 \in 1..Len(writes) :
            (k1 < k2 /\ SameGroup(writes[k1].index, writes[k2].index)) =>
                writes[k1].index[reduce_dim + 1] < writes[k2].index[reduce_dim + 1]

C9_Witness ==
    /\ op = "reduce" /\ pc = "done"
    /\ Len(a_shape) = 3 /\ reduce_dim = 1
    /\ \E k1, k2 \in 1..Len(writes) :
          k1 < k2 /\ SameGroup(writes[k1].index, writes[k2].index)

\* C10: the reduce traversal visits every coordinate of a_shape exactly
\* once, for every rank and every reduce_dim.
C10_VisitsEveryCoordinateOnce ==
    (op = "reduce" /\ pc = "done") =>
        \A c \in Coordinates(a_shape) : Cardinality(WritesTo(c)) = 1
====
